---- MODULE Spec2Model ----
(***************************************************************************)
(* State-machine model of api/index.js: the news handler with its          *)
(* in-process cache (runtimeNewsCache), the durable store (data.json),     *)
(* the bearer-token gate and the blob upload relay.                        *)
(*                                                                         *)
(* Strings are sequences of one-character strings, so that trim() is an    *)
(* operation and not the identity.  Instants are integers (milliseconds    *)
(* since the process started); an ISO-8601 string written by toISOString() *)
(* and parsed back by new Date() denotes the same millisecond, and a       *)
(* createdAt that does not parse (or is absent) is the value NaN; one that  *)
(* new Date() cannot convert at all is the value Unconvertible.            *)
(***************************************************************************)
EXTENDS Integers, Sequences, FiniteSets, TLC

\* ---------------------------------------------------------------- bounds
MaxAdds == 2        \* items the cache may hold
MaxInFlight == 2    \* requests the handler has not finished with
MaxBlobs == 1       \* blobs the upload relay may store
MaxFiles == 2       \* file fields of one multipart body

\* ------------------------------------------------------ program constants
ExpiresInSec == 604800      \* expiresIn: "7d", in seconds (jwt exp claim)

\* ---------------------------------------------------------------- strings
Str_empty == <<>>

\* The white space and line terminators String.prototype.trim strips.  A
\* character that has no escape in a string literal is written as its code
\* point: "U+000B" is the one character U+000B.
WhiteSpace ==
  { " ", "\t", "\n", "\r", "\f", "U+000B", "U+00A0", "U+1680",
    "U+2000", "U+2001", "U+2002", "U+2003", "U+2004", "U+2005", "U+2006",
    "U+2007", "U+2008", "U+2009", "U+200A", "U+2028", "U+2029", "U+202F",
    "U+205F", "U+3000", "U+FEFF" }

IsSpace(c) == c \in WhiteSpace

RECURSIVE TrimStart(_)
TrimStart(s) ==
  IF s = <<>> THEN s
  ELSE IF IsSpace(Head(s)) THEN TrimStart(Tail(s)) ELSE s

RECURSIVE TrimEnd(_)
TrimEnd(s) ==
  IF s = <<>> THEN s
  ELSE IF IsSpace(s[Len(s)]) THEN TrimEnd(SubSeq(s, 1, Len(s) - 1)) ELSE s

\* String.prototype.trim
Trim(s) == TrimEnd(TrimStart(s))

\* ------------------------------------------------------------ JSON values
\* A JSON value of a request body field; t = "absent" is a missing key.
JAbsent == [t |-> "absent", s |-> <<>>, n |-> 0, b |-> FALSE]
JNull == [t |-> "null", s |-> <<>>, n |-> 0, b |-> FALSE]
JStr(str) == [t |-> "str", s |-> str, n |-> 0, b |-> FALSE]
JNum(num) == [t |-> "num", s |-> <<>>, n |-> num, b |-> FALSE]
JBool(bool) == [t |-> "bool", s |-> <<>>, n |-> 0, b |-> bool]

\* JavaScript truthiness of a JSON scalar (the left operand of ||).
Truthy(v) ==
  CASE v.t = "str" -> v.s # <<>>
    [] v.t = "num" -> v.n # 0
    [] v.t = "bool" -> v.b
    [] OTHER -> FALSE

Digit(d) == <<"0", "1", "2", "3", "4", "5", "6", "7", "8", "9">>[d + 1]

RECURSIVE NatToString(_)
NatToString(n) ==
  IF n < 10 THEN <<Digit(n)>> ELSE NatToString(n \div 10) \o <<Digit(n % 10)>>

\* String(v) for a JSON scalar.
StringOf(v) ==
  CASE v.t = "str" -> v.s
    [] v.t = "num" -> IF v.n < 0 THEN <<"-">> \o NatToString(-v.n) ELSE NatToString(v.n)
    [] v.t = "bool" -> IF v.b THEN <<"t", "r", "u", "e">> ELSE <<"f", "a", "l", "s", "e">>
    [] v.t = "null" -> <<"n", "u", "l", "l">>
    [] OTHER -> <<"u", "n", "d", "e", "f", "i", "n", "e", "d">>

\* String(v || "").trim()
Field(v) == Trim(IF Truthy(v) THEN StringOf(v) ELSE Str_empty)

\* ------------------------------------------------------------------ items
NaN == -1           \* getTime() of a createdAt that is absent or does not parse
Unconvertible == -2 \* a createdAt on which new Date() throws
NoId == <<>>        \* an absent or empty (falsy) id

\* makeId: "n_" + random part + time part
makeId(rand, t) == <<"n_", rand, t>>

NewsItem(id, text, source, imageUrl, createdAt) ==
  [id |-> id, text |-> text, source |-> source, imageUrl |-> imageUrl,
   createdAt |-> createdAt]

\* --------------------------------------------------------------- the sort
\* new Date(x.createdAt) throws a TypeError: the createdAt is an object with
\* neither a callable valueOf nor a callable toString, as JSON.parse builds
\* from {"valueOf": null, "toString": null}.
DateThrows(x) == x.createdAt = Unconvertible

\* The comparator of merged.sort throws when one of its two conversions does.
CompareThrows(a, b) == DateThrows(b) \/ DateThrows(a)

\* What the comparator returns when it does not throw, after the engine's
\* NaN -> 0 coercion.
Compare(a, b) ==
  IF a.createdAt = NaN \/ b.createdAt = NaN THEN 0 ELSE b.createdAt - a.createdAt

Reverse(s) == [i \in 1..Len(s) |-> s[Len(s) + 1 - i]]

\* Length of the initial run that starts at arr[1]; idx is the next 1-based
\* index to look at.
RECURSIVE RunLength(_, _, _)
RunLength(arr, idx, descending) ==
  IF idx > Len(arr) THEN Len(arr)
  ELSE LET order == Compare(arr[idx], arr[idx - 1]) IN
       IF (descending /\ order >= 0) \/ (~descending /\ order < 0)
       THEN idx - 1
       ELSE RunLength(arr, idx + 1, descending)

\* Binary search for the insertion point of pivot in arr[left+1 .. right]
\* (left and right are 0-based, right exclusive).
RECURSIVE InsertionPoint(_, _, _, _)
InsertionPoint(arr, pivot, left, right) ==
  IF left >= right THEN left
  ELSE LET mid == left + ((right - left) \div 2) IN
       IF Compare(pivot, arr[mid + 1]) < 0
       THEN InsertionPoint(arr, pivot, left, mid)
       ELSE InsertionPoint(arr, pivot, mid + 1, right)

\* arr with the element at 0-based index start moved to 0-based index left.
MoveTo(arr, start, left) ==
  [i \in 1..Len(arr) |->
     IF i - 1 < left \/ i - 1 > start THEN arr[i]
     ELSE IF i - 1 = left THEN arr[start + 1]
     ELSE arr[i - 1]]

RECURSIVE BinaryInsertionSort(_, _)
BinaryInsertionSort(arr, start) ==
  IF start >= Len(arr) THEN arr
  ELSE BinaryInsertionSort(
         MoveTo(arr, start, InsertionPoint(arr, arr[start + 1], 0, start)),
         start + 1)

\* merged.sort throws what its comparator throws.  An array of fewer than two
\* elements is returned without a call of the comparator; in a longer one
\* every element is compared with another.
ArraySortThrows(arr) ==
  /\ Len(arr) >= 2
  /\ \E j, k \in 1..Len(arr) : j # k /\ CompareThrows(arr[j], arr[k])

\* Array.prototype.sort with the comparator above, when it does not throw, for
\* arrays shorter than the engine's minimum run length (one run, then binary
\* insertion).
ArraySort(arr) ==
  IF Len(arr) < 2 THEN arr
  ELSE LET descending == Compare(arr[2], arr[1]) < 0
           run == RunLength(arr, 3, descending)
           made == IF descending
                   THEN Reverse(SubSeq(arr, 1, run)) \o SubSeq(arr, run + 1, Len(arr))
                   ELSE arr
       IN BinaryInsertionSort(made, run)

\* --------------------------------------------------------------- mutants
\* Variants of the definitions below, each changed the way a slip in the code
\* would change it; the properties at the end must tell them apart.

\* The loop without the falsy-id test ( if (seen.has(n.id)) continue; ).
RECURSIVE MergeLoop_KeepsNoId(_, _, _)
MergeLoop_KeepsNoId(rest, seen, merged) ==
  IF rest = <<>> THEN merged
  ELSE LET n == Head(rest) IN
       IF n.id \in seen
       THEN MergeLoop_KeepsNoId(Tail(rest), seen, merged)
       ELSE MergeLoop_KeepsNoId(Tail(rest), seen \cup {n.id}, Append(merged, n))

\* [...fileNews, ...cacheNews]: the durable copy would win.
Spread_FileFirst(cacheNews, fileNews) == fileNews \o cacheNews

\* --------------------------------------------------------- the read merge
\* The loop of getAllNews: keep the first occurrence of each truthy id.
RECURSIVE MergeLoop(_, _, _)
MergeLoop(rest, seen, merged) ==
  IF rest = <<>> THEN merged
  ELSE LET n == Head(rest) IN
       IF n.id = NoId \/ n.id \in seen
       THEN MergeLoop(Tail(rest), seen, merged)
       ELSE MergeLoop(Tail(rest), seen \cup {n.id}, Append(merged, n))

\* [...cacheNews, ...fileNews]
Spread(cacheNews, fileNews) == cacheNews \o fileNews

\* getAllNews throws: nothing in it catches what merged.sort throws.
getAllNewsThrows(cacheNews, fileNews) ==
  ArraySortThrows(MergeLoop(Spread(cacheNews, fileNews), {}, <<>>))

\* What getAllNews returns when it does not throw, given what readNewsFromFile
\* returned and the cache sequence.
getAllNews(cacheNews, fileNews) ==
  ArraySort(MergeLoop(Spread(cacheNews, fileNews), {}, <<>>))

\* ------------------------------------------------------ the durable store
\* data.json: content is "missing", "empty" (no bytes), "malformed" (not
\* JSON), "nonarray" (JSON whose news field is not an array) or "array";
\* readable / writable say whether readFileSync / the open of writeFileSync
\* succeed on it, and full says that a write on the open file fails (no space
\* left, or a file-size limit).
DataFile(content, news, readable, writable) ==
  [content |-> content, news |-> news, readable |-> readable, writable |-> writable,
   full |-> FALSE]
FullStore(f) == [f EXCEPT !.full = TRUE]

\* Array.isArray(parsed.items): a key data.json does not have, so that every
\* read is empty.
readNewsFromFile_WrongKey(f) == <<>>

\* readNewsFromFile: every failure is an empty sequence.
readNewsFromFile(f) ==
  IF f.readable /\ f.content = "array" THEN f.news ELSE <<>>

\* fs.writeFileSync is an open, a write and a close.  The open, with flag
\* "w", truncates the file to no bytes, or creates it; an existing file keeps
\* its mode.
OpenTruncate(f) ==
  IF f.writable
  THEN [file |-> [f EXCEPT !.content = "empty", !.news = <<>>,
                           !.readable = (f.content = "missing" \/ @)],
        threw |-> FALSE]
  ELSE [file |-> f, threw |-> TRUE]

\* The write of the document {news: next} at the start of the open file.  On
\* a file that has no bytes the document is the content.  When another
\* process has written since the open, the document covers those bytes, or,
\* being shorter, leaves their tail behind it, which is not JSON.  On a full
\* store the write throws, after no byte or (partial) after some bytes of the
\* document, and no proper prefix of the document is JSON.
WriteAll(f, next, covers, partial) ==
  IF f.full
  THEN [file |-> IF partial THEN [f EXCEPT !.content = "malformed", !.news = <<>>]
                 ELSE f,
        threw |-> TRUE]
  ELSE [file |-> IF f.content = "empty" \/ covers
                 THEN [f EXCEPT !.content = "array", !.news = next]
                 ELSE [f EXCEPT !.content = "malformed", !.news = <<>>],
        threw |-> FALSE]

\* fs.writeFileSync(DATA_PATH, JSON.stringify({news: [item, ...fileNews]}))
\* with nothing between its open and its write: the file after the call, and
\* whether the call threw.  A write that fails leaves the file truncated, with
\* no bytes or with a prefix of the document.
writeFileSync(f, next, partial) ==
  LET opened == OpenTruncate(f)
  IN IF opened.threw THEN opened ELSE WriteAll(opened.file, next, TRUE, partial)

\* The try { read, prepend, write } catch {} of the add handler: the file
\* afterwards; no exception leaves the block.
Persist(f, item, partial) ==
  writeFileSync(f, <<item>> \o readNewsFromFile(f), partial).file

\* --------------------------------------------------------- the token gate
Token(wellFormed, sig, exp) ==
  [present |-> TRUE, wellFormed |-> wellFormed, sig |-> sig, exp |-> exp]
NoToken == [present |-> FALSE, wellFormed |-> FALSE, sig |-> FALSE, exp |-> 0]

\* The Authorization header: the characters before the first white space
\* (the scheme) and the credential after it.
Header(scheme, cred) == [scheme |-> scheme, cred |-> cred]

\* Each upper-case letter with its lower-case form.
LowerCaseOf ==
  ("A" :> "a") @@ ("B" :> "b") @@ ("C" :> "c") @@ ("D" :> "d") @@ ("E" :> "e") @@
  ("F" :> "f") @@ ("G" :> "g") @@ ("H" :> "h") @@ ("I" :> "i") @@ ("J" :> "j") @@
  ("K" :> "k") @@ ("L" :> "l") @@ ("M" :> "m") @@ ("N" :> "n") @@ ("O" :> "o") @@
  ("P" :> "p") @@ ("Q" :> "q") @@ ("R" :> "r") @@ ("S" :> "s") @@ ("T" :> "t") @@
  ("U" :> "u") @@ ("V" :> "v") @@ ("W" :> "w") @@ ("X" :> "x") @@ ("Y" :> "y") @@
  ("Z" :> "z")

\* The case fold of the regular expression's i flag.
FoldCase(c) == IF c \in DOMAIN LowerCaseOf THEN LowerCaseOf[c] ELSE c
FoldCaseAll(str) == [k \in 1..Len(str) |-> FoldCase(str[k])]

\* jwt.verify with ignoreExpiration: only the signature is checked.
JwtVerify_IgnoreExpiration(tok, t) == tok.wellFormed /\ tok.sig

\* jwt.verify(token, JWT_SECRET) at clock t (milliseconds): the exp claim is
\* in seconds and the token is expired once floor(t / 1000) >= exp.
JwtVerify(tok, t) ==
  tok.wellFormed /\ tok.sig /\ (t \div 1000) < tok.exp

\* auth.match(/^Bearer\s+(.+)$/i)
BearerMatch(h) ==
  /\ FoldCaseAll(h.scheme) = <<"b", "e", "a", "r", "e", "r">>
  /\ h.cred.present

\* jwt.decode in place of jwt.verify: neither signature nor expiry is checked.
verifyJWT_DecodeOnly(h, t) == BearerMatch(h) /\ h.cred.wellFormed

verifyJWT(h, t) == BearerMatch(h) /\ JwtVerify(h.cred, t)

\* jwt.sign({sub, role}, JWT_SECRET, {expiresIn: "7d"}) at clock t
JwtSign(t) == Token(TRUE, TRUE, (t \div 1000) + ExpiresInSec)

\* ------------------------------------------------------- configuration
ADMIN_USER == <<"a", "d", "m", "i", "n">>
ADMIN_PASSWORD == <<"p", "a", "s", "s", "w", "o", "r", "d">>

\* ------------------------------------------------------------ input pools
\* Instants at which events happen, in milliseconds since the process started.
Times == {0, 500, 1000}

\* The random part of makeId.
Rands == {1, 2}

\* Tokens a client may present: one signed with the secret and far from
\* expiry, one signed with the secret that expires one second after the
\* process started, one with a bad signature, one that is not a JWT at all.
GoodToken == Token(TRUE, TRUE, ExpiresInSec)
ShortToken == Token(TRUE, TRUE, 1)
ForgedToken == Token(TRUE, FALSE, ExpiresInSec)
GarbageToken == Token(FALSE, FALSE, 0)

\* Spellings of the scheme.
Scheme_Bearer == <<"B", "e", "a", "r", "e", "r">>
Scheme_bearer == <<"b", "e", "a", "r", "e", "r">>
Scheme_bEaReR == <<"b", "E", "a", "R", "e", "R">>
Scheme_Basic == <<"B", "a", "s", "i", "c">>

NoHeader == Header(<<>>, NoToken)
Headers ==
  { NoHeader,
    Header(Scheme_Basic, GoodToken),
    Header(Scheme_Bearer, NoToken),
    Header(Scheme_Bearer, GarbageToken),
    Header(Scheme_Bearer, ForgedToken),
    Header(Scheme_Bearer, ShortToken),
    Header(Scheme_bEaReR, GoodToken) }

\* Request bodies as the stream delivers them: kind "error" is a stream that
\* errors, "notjson" a text JSON.parse rejects, "empty" the empty text (parsed
\* as {}), "null" the JSON text null, "object" a JSON object.
Body(kind, text, source, imageUrl, username, password) ==
  [kind |-> kind, text |-> text, source |-> source, imageUrl |-> imageUrl,
   username |-> username, password |-> password]
NoBody == Body("none", JAbsent, JAbsent, JAbsent, JAbsent, JAbsent)
BodyOfKind(kind) == Body(kind, JAbsent, JAbsent, JAbsent, JAbsent, JAbsent)
NewsBody(text, source, imageUrl) == Body("object", text, source, imageUrl, JAbsent, JAbsent)
LoginBody(username, password) == Body("object", JAbsent, JAbsent, JAbsent, username, password)

Body_a == NewsBody(JStr(<<" ", "a", " ">>), JAbsent, JAbsent)
Body_b == NewsBody(JStr(<<"b">>), JStr(<<"\r", "s">>), JStr(<<"u", "U+00A0">>))
Body_blank == NewsBody(JStr(<<" ", "\t", "\r", "\f">>), JStr(<<"s">>), JAbsent)

NewsBodies ==
  { BodyOfKind("error"), BodyOfKind("notjson"), BodyOfKind("empty"), BodyOfKind("null"),
    Body_blank, Body_a, Body_b }

LoginBodies ==
  { BodyOfKind("error"), BodyOfKind("notjson"), BodyOfKind("empty"),
    LoginBody(JStr(ADMIN_USER), JStr(ADMIN_PASSWORD)),
    LoginBody(JStr(ADMIN_USER), JStr(<<"w", "r", "o", "n", "g">>)),
    LoginBody(JStr(ADMIN_USER), JAbsent) }

\* Items of data.json that add did not write.
F_old == NewsItem(makeId(1, 0), <<"o", "l", "d">>, <<>>, <<>>, 0)
F_noid == NewsItem(NoId, <<"x">>, <<>>, <<>>, 1)
F_a == NewsItem(<<"a">>, <<"A">>, <<>>, <<>>, 1)
F_a2 == NewsItem(<<"a">>, <<"A", "2">>, <<>>, <<>>, 2)
F_b == NewsItem(<<"b">>, <<"B">>, <<>>, <<>>, NaN)
F_c == NewsItem(<<"c">>, <<"C">>, <<>>, <<>>, 3)
F_obj == NewsItem(<<"o">>, <<"O">>, <<>>, <<>>, Unconvertible)

\* States in which the process may find data.json.
ExternalFiles ==
  { DataFile("missing", <<>>, FALSE, TRUE),
    DataFile("missing", <<>>, FALSE, FALSE),
    DataFile("malformed", <<>>, TRUE, TRUE),
    DataFile("nonarray", <<>>, TRUE, FALSE),
    DataFile("array", <<F_a, F_b, F_c, F_old>>, TRUE, FALSE),
    DataFile("array", <<F_noid, F_a, F_a2, F_old>>, TRUE, TRUE),
    DataFile("array", <<F_a, F_c>>, FALSE, TRUE),
    FullStore(DataFile("array", <<F_a, F_c>>, TRUE, TRUE)) }

\* ------------------------------------------------------------------ state
VARIABLES
  runtimeNewsCache, \* [isArray, items]: null, or the array of added items
  dataFile,         \* data.json
  blobs,            \* blobs stored by the upload relay
  now,              \* the clock, in milliseconds
  inflight,         \* requests suspended at their body read
  last,             \* the last event and the response it sent, if any
  created,          \* history: the items add returned, oldest first
  issued,           \* history: the tokens login issued, each with its instant
  peer,             \* a second handler process over the same data.json
  adding            \* this process between the two file calls of an add

vars ==
  <<runtimeNewsCache, dataFile, blobs, now, inflight, last, created, issued, peer,
    adding>>

NullCache == [isArray |-> FALSE, items |-> <<>>]
ArrayCache(items) == [isArray |-> TRUE, items |-> items]

NoItem == NewsItem(NoId, <<>>, <<>>, <<>>, NaN)

Event(op, status, error, auth, body, item, news, token) ==
  [op |-> op, status |-> status, error |-> error, auth |-> auth, body |-> body,
   item |-> item, news |-> news, token |-> token]

\* json(res, status, {ok: false, error})
ErrorResponse(op, status, error, auth, body) ==
  Event(op, status, error, auth, body, NoItem, <<>>, NoToken)

\* A step that sends no response (the handler is suspended, or the step is
\* not the handler's).
NoResponse(op, auth) == Event(op, 0, "", auth, NoBody, NoItem, <<>>, NoToken)

\* A request the handler has not finished with, with the header it presented.
\* A login or add is suspended at its body read.  An upload also carries the
\* state of its multipart stream ("open", then "finished", "failed",
\* "aborted", or "threw" when the parser could not be built), the promises its
\* file fields created (uploadPromise is the last one; each is "reading" while
\* its file stream is read, "putting" while put() is pending, then "resolved"
\* or "rejected"), whether the finish handler is suspended at await
\* uploadPromise, and the responses sent so far.
Pending(route, auth) ==
  [route |-> route, auth |-> auth, stream |-> "open", promises |-> <<>>,
   awaiting |-> FALSE, responses |-> 0]

\* The second process: its own runtimeNewsCache, and, while it is between the
\* readFileSync of an add and the end of its writeFileSync, the item, the
\* sequence read and whether writeFileSync has opened the file.
Peer(cache, writing, opened, item, fileNews) ==
  [cache |-> cache, writing |-> writing, opened |-> opened, item |-> item,
   fileNews |-> fileNews]
IdlePeer(cache) == Peer(cache, FALSE, FALSE, NoItem, <<>>)

\* This process inside the try of an add, after const fileNews =
\* readNewsFromFile() and before fs.writeFileSync has returned: the request,
\* the item, the sequence read and whether writeFileSync has opened the file.
\* The stretch is synchronous, so that nothing else runs in this process while
\* it lasts.
Adding(active, opened, auth, body, item, fileNews) ==
  [active |-> active, opened |-> opened, auth |-> auth, body |-> body,
   item |-> item, fileNews |-> fileNews]
NotAdding == Adding(FALSE, FALSE, NoHeader, NoBody, NoItem, <<>>)

Remove(seq, i) == SubSeq(seq, 1, i - 1) \o SubSeq(seq, i + 1, Len(seq))

InitWith(files) ==
  /\ runtimeNewsCache = NullCache
  /\ dataFile \in files
  /\ blobs = 0
  /\ now = 0
  /\ inflight = <<>>
  /\ last = NoResponse("init", NoHeader)
  /\ created = <<>>
  /\ issued = {}
  /\ peer = IdlePeer(NullCache)
  /\ adding = NotAdding

\* --------------------------------------------------------- the environment
\* The clock advances.
Tick(t) ==
  /\ t > now
  /\ now' = t
  /\ last' = NoResponse("tick", NoHeader)
  /\ UNCHANGED <<runtimeNewsCache, dataFile, blobs, inflight, created, issued, peer, adding>>

\* The storage layer becomes unavailable: from now on reads and writes of
\* data.json fail.  The content stays as it is.
EnvFail ==
  /\ dataFile.readable \/ dataFile.writable
  /\ dataFile' = [dataFile EXCEPT !.readable = FALSE, !.writable = FALSE]
  /\ last' = NoResponse("env", NoHeader)
  /\ UNCHANGED <<runtimeNewsCache, blobs, now, inflight, created, issued, peer, adding>>

\* ------------------------------------------------------------- GET /news
\* Array.isArray(runtimeNewsCache) ? runtimeNewsCache : []
CacheNews(cache) == IF cache.isArray THEN cache.items ELSE <<>>

\* What listAll returns in the current state.
ListAll == getAllNews(CacheNews(runtimeNewsCache), readNewsFromFile(dataFile))

\* listAll throws in the current state.
ListThrows == getAllNewsThrows(CacheNews(runtimeNewsCache), readNewsFromFile(dataFile))

\* getAllNews consuming the cache it merges.
CacheAfterList_Drained(cache) == [isArray |-> FALSE, items |-> <<>>]

\* runtimeNewsCache = cacheNews: a cache that was null becomes [].
CacheAfterList_Assigned(cache) ==
  [isArray |-> TRUE, items |-> IF cache.isArray THEN cache.items ELSE <<>>]

\* The cache after getAllNews ran: it is read, never assigned.
CacheAfterList(cache) == cache

\* const news = getAllNews(); return json(res, 200, { ok: true, news });
\* When getAllNews throws, the route has no catch: the handler's promise
\* rejects and no response is written.
ListNews ==
  /\ ~adding.active
  /\ last' = IF ListThrows
              THEN NoResponse("list", NoHeader)
              ELSE Event("list", 200, "", NoHeader, NoBody, NoItem, ListAll, NoToken)
  /\ runtimeNewsCache' = CacheAfterList(runtimeNewsCache)
  /\ UNCHANGED <<dataFile, blobs, now, inflight, created, issued, peer, adding>>

\* ------------------------------------------------------------ POST /news
\* const v = verifyJWT(req); if (!v.ok) return unauthorized(res);
\* then the handler suspends at await readBody(req).
NewsGate(h) ==
  /\ ~adding.active
  /\ IF verifyJWT(h, now)
     THEN /\ Len(inflight) < MaxInFlight
          /\ inflight' = Append(inflight, Pending("news", h))
          /\ last' = NoResponse("news_gate", h)
     ELSE /\ inflight' = inflight
          /\ last' = ErrorResponse("news_gate", 401, "Unauthorized", h, NoBody)
  /\ UNCHANGED <<runtimeNewsCache, dataFile, blobs, now, created, issued, peer, adding>>

\* JSON.parse outside its try: only a failing stream is reported.
BodyFailure_ParseUnguarded(b) ==
  IF b.kind = "error" THEN "Failed to read body" ELSE ""

\* try { bodyText = await readBody(req) } catch { 400 "Failed to read body" }
\* try { body = JSON.parse(bodyText || "{}") } catch { 400 "Body must be JSON" }
\* The message of the 400 the two blocks send, "" when both succeed.
BodyFailure(b) ==
  IF b.kind = "error" THEN "Failed to read body"
  ELSE IF b.kind = "notjson" THEN "Body must be JSON"
  ELSE ""

\* The emptiness test made before trimming: if (!body?.text).
TextMissing_Untrimmed(b) == ~Truthy(b.text)

\* if (!text) after const text = String(body?.text || "").trim()
TextMissing(b) == Field(b.text) = Str_empty

\* The add handler relying on the durable write alone.
Unshift_Skipped(cache, item) == cache

\* runtimeNewsCache = [item]: the earlier items are dropped.
Unshift_Replaces(cache, item) == [isArray |-> TRUE, items |-> <<item>>]

\* runtimeNewsCache.push(item): the newest item goes last.
Unshift_Push(cache, item) ==
  [isArray |-> TRUE, items |-> (IF cache.isArray THEN cache.items ELSE <<>>) \o <<item>>]

\* if (!Array.isArray(runtimeNewsCache)) runtimeNewsCache = [];
\* runtimeNewsCache.unshift(item);
Unshift(cache, item) == ArrayCache(<<item>> \o CacheNews(cache))

\* The rest of the add handler once the body stream has ended or errored: one
\* synchronous stretch.  With no other process on data.json, nothing comes
\* between its readFileSync and its writeFileSync.  A write that fails on a
\* full store leaves no byte or a prefix of the document (partial).
NewsBodyDone(i, b, rand) ==
  /\ ~adding.active
  /\ i \in 1..Len(inflight)
  /\ inflight[i].route = "news"
  /\ inflight' = Remove(inflight, i)
  /\ LET rq == inflight[i] IN
     IF BodyFailure(b) # "" THEN
       /\ last' = ErrorResponse("add", 400, BodyFailure(b), rq.auth, b)
       /\ UNCHANGED <<runtimeNewsCache, dataFile, created>>
     ELSE IF TextMissing(b) THEN
       /\ last' = ErrorResponse("add", 400, "text is required", rq.auth, b)
       /\ UNCHANGED <<runtimeNewsCache, dataFile, created>>
     ELSE
       LET item == NewsItem(makeId(rand, now), Field(b.text), Field(b.source),
                            Field(b.imageUrl), now)
       IN /\ Len(CacheNews(runtimeNewsCache)) < MaxAdds
          /\ runtimeNewsCache' = Unshift(runtimeNewsCache, item)
          /\ \E partial \in BOOLEAN :
               /\ partial => (dataFile.writable /\ dataFile.full)
               /\ dataFile' = Persist(dataFile, item, partial)
          /\ last' = Event("add", 201, "", rq.auth, b, item, <<>>, NoToken)
          /\ created' = Append(created, item)
  /\ UNCHANGED <<blobs, now, issued, peer, adding>>

\* The same stretch as two steps, for a data.json that another process uses:
\* first everything up to and including const fileNews = readNewsFromFile()
\* (the 400s return before it) ...
NewsAddRead(i, b, rand) ==
  /\ ~adding.active
  /\ i \in 1..Len(inflight)
  /\ inflight[i].route = "news"
  /\ inflight' = Remove(inflight, i)
  /\ LET rq == inflight[i] IN
     IF BodyFailure(b) # "" THEN
       /\ last' = ErrorResponse("add", 400, BodyFailure(b), rq.auth, b)
       /\ UNCHANGED <<runtimeNewsCache, adding>>
     ELSE IF TextMissing(b) THEN
       /\ last' = ErrorResponse("add", 400, "text is required", rq.auth, b)
       /\ UNCHANGED <<runtimeNewsCache, adding>>
     ELSE
       LET item == NewsItem(makeId(rand, now), Field(b.text), Field(b.source),
                            Field(b.imageUrl), now)
       IN /\ Len(CacheNews(runtimeNewsCache)) < MaxAdds
          /\ runtimeNewsCache' = Unshift(runtimeNewsCache, item)
          /\ adding' = Adding(TRUE, FALSE, rq.auth, b, item, readNewsFromFile(dataFile))
          /\ last' = NoResponse("add_read", rq.auth)
  /\ UNCHANGED <<dataFile, blobs, now, created, issued, peer>>

\* ... then the open of fs.writeFileSync(DATA_PATH, ...), which leaves
\* data.json without bytes; when it throws, the catch swallows it and the
\* handler answers 201 ...
NewsAddOpen ==
  /\ adding.active /\ ~adding.opened
  /\ LET o == OpenTruncate(dataFile) IN
     /\ dataFile' = o.file
     /\ IF o.threw
        THEN /\ adding' = NotAdding
             /\ last' = Event("add", 201, "", adding.auth, adding.body, adding.item,
                              <<>>, NoToken)
             /\ created' = Append(created, adding.item)
        ELSE /\ adding' = [adding EXCEPT !.opened = TRUE]
             /\ last' = NoResponse("add_open", adding.auth)
             /\ created' = created
  /\ UNCHANGED <<runtimeNewsCache, blobs, now, inflight, issued, peer>>

\* ... and then its write of {news: [item, ...fileNews]}, still inside the
\* try, and the 201.  On a full store the write throws after no byte or after
\* a prefix of the document (partial); the catch swallows it.
NewsAddWrite(covers, partial) ==
  /\ adding.active /\ adding.opened
  /\ dataFile.content = "empty" => covers
  /\ partial => dataFile.full
  /\ dataFile' = WriteAll(dataFile, <<adding.item>> \o adding.fileNews, covers, partial).file
  /\ adding' = NotAdding
  /\ last' = Event("add", 201, "", adding.auth, adding.body, adding.item, <<>>, NoToken)
  /\ created' = Append(created, adding.item)
  /\ UNCHANGED <<runtimeNewsCache, blobs, now, inflight, issued, peer>>

\* ----------------------------------------------------------- POST /login
LoginBegin ==
  /\ ~adding.active
  /\ Len(inflight) < MaxInFlight
  /\ inflight' = Append(inflight, Pending("login", NoHeader))
  /\ last' = NoResponse("login_begin", NoHeader)
  /\ UNCHANGED <<runtimeNewsCache, dataFile, blobs, now, created, issued, peer, adding>>

\* username !== ADMIN_USER && password !== ADMIN_PASSWORD: one matching field
\* would be enough.
CredentialsMismatch_Both(b) ==
  /\ b.username # JStr(ADMIN_USER)
  /\ b.password # JStr(ADMIN_PASSWORD)

\* username !== ADMIN_USER || password !== ADMIN_PASSWORD
CredentialsMismatch(b) ==
  \/ b.username # JStr(ADMIN_USER)
  \/ b.password # JStr(ADMIN_PASSWORD)

LoginBodyDone(i, b) ==
  /\ ~adding.active
  /\ i \in 1..Len(inflight)
  /\ inflight[i].route = "login"
  /\ inflight' = Remove(inflight, i)
  /\ IF BodyFailure(b) # "" THEN
       /\ last' = ErrorResponse("login", 400, BodyFailure(b), NoHeader, b)
       /\ issued' = issued
     ELSE IF CredentialsMismatch(b) THEN
       /\ last' = ErrorResponse("login", 401, "Invalid credentials", NoHeader, b)
       /\ issued' = issued
     ELSE
       /\ last' = Event("login", 200, "", NoHeader, b, NoItem, <<>>, JwtSign(now))
       /\ issued' = issued \cup {[token |-> JwtSign(now), at |-> now]}
  /\ UNCHANGED <<runtimeNewsCache, dataFile, blobs, now, created, peer, adding>>

\* ---------------------------------------------------------- POST /upload
\* const v = verifyJWT(req); if (!v.ok) return unauthorized(res);
\* const bb = Busboy({ headers: req.headers }): the constructor throws when the
\* Content-Type is missing or is not a form type, and nothing catches it: the
\* handler's promise rejects and no response is sent.  Otherwise the
\* listeners are attached, req is piped into bb and the handler returns.
UploadGate(h, formType) ==
  /\ ~adding.active
  /\ IF verifyJWT(h, now)
     THEN /\ Len(inflight) < MaxInFlight
          /\ inflight' = Append(inflight,
               [Pending("upload", h) EXCEPT !.stream = IF formType THEN "open" ELSE "threw"])
          /\ last' = NoResponse("upload_gate", h)
     ELSE /\ inflight' = inflight
          /\ last' = ErrorResponse("upload_gate", 401, "Unauthorized", h, NoBody)
  /\ UNCHANGED <<runtimeNewsCache, dataFile, blobs, now, created, issued, peer, adding>>

\* The request at position i is an upload whose multipart stream is open.
UploadOpen(i) ==
  /\ ~adding.active
  /\ i \in 1..Len(inflight)
  /\ inflight[i].route = "upload"
  /\ inflight[i].stream = "open"

\* json(res, status, ...) on the response of the upload at position i.
Respond(rq, status, error) ==
  IF status = 200
  THEN Event("upload", 200, "", rq.auth, NoBody, NoItem, <<>>, NoToken)
  ELSE ErrorResponse("upload", status, error, rq.auth, NoBody)

\* A rejection of the k-th promise finds a handler only when the finish
\* handler is suspended at await uploadPromise and uploadPromise is still that
\* promise: nothing else in the route attaches one.
Handled(rq, k) == rq.awaiting /\ k = Len(rq.promises)

\* A promise rejects with no handler attached: node raises unhandledRejection
\* and, in its default mode, the process exits with code 1.  The cache goes
\* with it, and every request in flight is left without a response.
ProcessExit(auth) ==
  /\ runtimeNewsCache' = NullCache
  /\ inflight' = <<>>
  /\ last' = NoResponse("exit", auth)

\* reject(...) on the k-th promise of the upload at position i: the suspended
\* finish handler catches it and answers 500, or the process exits.
Reject(i, k) ==
  LET rq == inflight[i] IN
  IF Handled(rq, k)
  THEN /\ inflight' = [inflight EXCEPT ![i].promises[k] = "rejected",
                                       ![i].awaiting = FALSE,
                                       ![i].responses = @ + 1]
       /\ last' = Respond(rq, 500, "Upload failed")
       /\ runtimeNewsCache' = runtimeNewsCache
  ELSE ProcessExit(rq.auth)

\* The k-th file stream of the upload at position i is still being read.
FileReading(i, k) ==
  /\ ~adding.active
  /\ i \in 1..Len(inflight)
  /\ inflight[i].route = "upload"
  /\ k \in 1..Len(inflight[i].promises)
  /\ inflight[i].promises[k] = "reading"

\* bb "file": uploadPromise is assigned a new promise, whose executor attaches
\* the "end" and "error" listeners of the file stream.  An earlier promise is
\* no longer referenced.
UploadFile(i) ==
  /\ UploadOpen(i)
  /\ Len(inflight[i].promises) < MaxFiles
  /\ inflight' = [inflight EXCEPT ![i].promises = Append(@, "reading")]
  /\ last' = NoResponse("upload_file", inflight[i].auth)
  /\ UNCHANGED <<runtimeNewsCache, dataFile, blobs, now, created, issued, peer, adding>>

\* file "end": the chunks are joined; an empty buffer rejects the promise,
\* any other is handed to put() and the callback suspends at await put(...).
FileEnd(i, k, empty) ==
  /\ FileReading(i, k)
  /\ inflight[i].stream \in {"open", "finished"}
  /\ IF empty
     THEN Reject(i, k)
     ELSE /\ inflight' = [inflight EXCEPT ![i].promises[k] = "putting"]
          /\ last' = NoResponse("upload_end", inflight[i].auth)
          /\ runtimeNewsCache' = runtimeNewsCache
  /\ UNCHANGED <<dataFile, blobs, now, created, issued, peer, adding>>

\* file "end" of an empty last file with bb "finish" in the same turn of the
\* event loop: the finish handler awaits the rejected promise before the
\* rejection is reported as unhandled, and answers 500.
FileEndThenFinish(i, k) ==
  /\ FileReading(i, k)
  /\ inflight[i].stream = "open"
  /\ k = Len(inflight[i].promises)
  /\ inflight' = [inflight EXCEPT ![i].promises[k] = "rejected",
                                  ![i].stream = "finished",
                                  ![i].responses = @ + 1]
  /\ last' = Respond(inflight[i], 500, "Upload failed")
  /\ UNCHANGED <<runtimeNewsCache, dataFile, blobs, now, created, issued, peer, adding>>

\* file "error": file.on("error", reject).
FileError(i, k) ==
  /\ FileReading(i, k)
  /\ Reject(i, k)
  /\ UNCHANGED <<dataFile, blobs, now, created, issued, peer, adding>>

\* put() settles for the k-th file of the upload at position i: resolve(blob),
\* on which a finish handler suspended at await uploadPromise answers 200, or
\* catch (e) { reject(e) }.
PutSettle(i, k, stored) ==
  /\ ~adding.active
  /\ i \in 1..Len(inflight)
  /\ inflight[i].route = "upload"
  /\ k \in 1..Len(inflight[i].promises)
  /\ inflight[i].promises[k] = "putting"
  /\ stored => blobs < MaxBlobs
  /\ blobs' = IF stored THEN blobs + 1 ELSE blobs
  /\ LET rq == inflight[i] IN
     IF stored
     THEN /\ inflight' = [inflight EXCEPT
                 ![i].promises[k] = "resolved",
                 ![i].awaiting = IF Handled(rq, k) THEN FALSE ELSE @,
                 ![i].responses = IF Handled(rq, k) THEN @ + 1 ELSE @]
          /\ last' = IF Handled(rq, k) THEN Respond(rq, 200, "")
                     ELSE NoResponse("upload_put", rq.auth)
          /\ runtimeNewsCache' = runtimeNewsCache
     ELSE Reject(i, k)
  /\ UNCHANGED <<dataFile, now, created, issued, peer, adding>>

\* bb "error": badRequest(res, "Upload parse error").  A writable stream that
\* failed emits no "finish".
BbError(i) ==
  /\ UploadOpen(i)
  /\ inflight' = [inflight EXCEPT ![i].stream = "failed", ![i].responses = @ + 1]
  /\ last' = Respond(inflight[i], 400, "Upload parse error")
  /\ UNCHANGED <<runtimeNewsCache, dataFile, blobs, now, created, issued, peer, adding>>

\* bb "finish": 400 when no file field was seen; otherwise await
\* uploadPromise, answering 200 when it has resolved and 500 when it has
\* rejected, and suspending while it is pending.
BbFinish(i) ==
  /\ UploadOpen(i)
  /\ LET rq == inflight[i]
         uploadPromise == IF rq.promises = <<>> THEN "null"
                          ELSE rq.promises[Len(rq.promises)]
     IN IF uploadPromise \in {"reading", "putting"}
        THEN /\ inflight' = [inflight EXCEPT ![i].stream = "finished",
                                             ![i].awaiting = TRUE]
             /\ last' = NoResponse("upload_finish", rq.auth)
        ELSE /\ inflight' = [inflight EXCEPT ![i].stream = "finished",
                                             ![i].responses = @ + 1]
             /\ last' = CASE uploadPromise = "null" ->
                               Respond(rq, 400, "No file provided (field: image)")
                          [] uploadPromise = "resolved" -> Respond(rq, 200, "")
                          [] OTHER -> Respond(rq, 500, "Upload failed")
  /\ UNCHANGED <<runtimeNewsCache, dataFile, blobs, now, created, issued, peer, adding>>

\* The request stream errors: pipe() forwards "data" and "end" only, and the
\* route attaches no "error" listener to req, so bb sees neither the end of
\* its input nor an error.
ReqError(i) ==
  /\ UploadOpen(i)
  /\ inflight' = [inflight EXCEPT ![i].stream = "aborted"]
  /\ last' = NoResponse("upload_abort", inflight[i].auth)
  /\ UNCHANGED <<runtimeNewsCache, dataFile, blobs, now, created, issued, peer, adding>>

\* Nothing more can happen to the upload: its stream has ended, errored or was
\* never parsed, every file stream has ended or errored, every put() has
\* settled and no handler is suspended.
Settled(rq) ==
  /\ rq.route = "upload"
  /\ rq.stream # "open"
  /\ ~rq.awaiting
  /\ \A k \in 1..Len(rq.promises) : rq.promises[k] \notin {"reading", "putting"}

\* The connection of a settled upload is given up.
UploadClose(i) ==
  /\ ~adding.active
  /\ i \in 1..Len(inflight)
  /\ Settled(inflight[i])
  /\ inflight' = Remove(inflight, i)
  /\ last' = NoResponse("upload_close", inflight[i].auth)
  /\ UNCHANGED <<runtimeNewsCache, dataFile, blobs, now, created, issued, peer, adding>>

\* ------------------------------------------------- a second handler process
\* What listAll returns in the second process.
PeerListAll == getAllNews(CacheNews(peer.cache), readNewsFromFile(dataFile))
PeerListThrows == getAllNewsThrows(CacheNews(peer.cache), readNewsFromFile(dataFile))

\* GET /news in the second process, which serves nothing while it is inside
\* the synchronous stretch of an add.
PeerListNews ==
  /\ ~peer.writing
  /\ last' = IF PeerListThrows
              THEN NoResponse("peer_list", NoHeader)
              ELSE Event("peer_list", 200, "", NoHeader, NoBody, NoItem, PeerListAll,
                         NoToken)
  /\ UNCHANGED <<runtimeNewsCache, dataFile, blobs, now, inflight, created, issued, peer, adding>>

\* An authenticated add with a valid text in the second process, up to and
\* including const fileNews = readNewsFromFile().
PeerAddRead(b, rand) ==
  /\ ~peer.writing
  /\ BodyFailure(b) = "" /\ ~TextMissing(b)
  /\ Len(CacheNews(peer.cache)) < MaxAdds
  /\ LET item == NewsItem(makeId(rand, now), Field(b.text), Field(b.source),
                          Field(b.imageUrl), now)
     IN peer' = Peer(Unshift(peer.cache, item), TRUE, FALSE, item,
                   readNewsFromFile(dataFile))
  /\ last' = NoResponse("peer_read", NoHeader)
  /\ UNCHANGED <<runtimeNewsCache, dataFile, blobs, now, inflight, created, issued, adding>>

\* The open of fs.writeFileSync in that add: data.json is left without bytes;
\* when the open throws, the catch swallows it and the add answers 201.
PeerAddOpen ==
  /\ peer.writing /\ ~peer.opened
  /\ LET o == OpenTruncate(dataFile) IN
     /\ dataFile' = o.file
     /\ IF o.threw
        THEN /\ peer' = IdlePeer(peer.cache)
             /\ last' = Event("peer_add", 201, "", NoHeader, NoBody, peer.item, <<>>,
                              NoToken)
        ELSE /\ peer' = [peer EXCEPT !.opened = TRUE]
             /\ last' = NoResponse("peer_open", NoHeader)
  /\ UNCHANGED <<runtimeNewsCache, blobs, now, inflight, created, issued, adding>>

\* The write of {news: [item, ...fileNews]} in that add, then 201, also when
\* the write throws after no byte or after a prefix of the document.
PeerAddWrite(covers, partial) ==
  /\ peer.writing /\ peer.opened
  /\ dataFile.content = "empty" => covers
  /\ partial => dataFile.full
  /\ dataFile' = WriteAll(dataFile, <<peer.item>> \o peer.fileNews, covers, partial).file
  /\ peer' = IdlePeer(peer.cache)
  /\ last' = Event("peer_add", 201, "", NoHeader, NoBody, peer.item, <<>>, NoToken)
  /\ UNCHANGED <<runtimeNewsCache, blobs, now, inflight, created, issued, adding>>

\* ------------------------------------------------------- specifications
\* The news repository: every store state and body, behind the gate with one
\* accepted and one rejected header.
RepoHeaders == {NoHeader, Header(Scheme_bearer, GoodToken)}
RepoTimes == {0, 1000}

Init == InitWith(ExternalFiles)

Next ==
  \/ \E t \in RepoTimes : Tick(t)
  \/ EnvFail
  \/ ListNews
  \/ \E h \in RepoHeaders : NewsGate(h)
  \/ \E i \in 1..MaxInFlight, b \in NewsBodies, rand \in Rands : NewsBodyDone(i, b, rand)

Spec == Init /\ [][Next]_vars

\* The token gate: every header on both gated routes, over a store that is
\* absent; an upload let through carries no file.
GateFiles == {DataFile("missing", <<>>, FALSE, TRUE), DataFile("missing", <<>>, FALSE, FALSE)}
GateBodies == {Body_blank, Body_a}

InitGate == InitWith(GateFiles)

NextGate ==
  \/ \E t \in RepoTimes : Tick(t)
  \/ \E h \in Headers : NewsGate(h)
  \/ \E i \in 1..MaxInFlight, b \in GateBodies : NewsBodyDone(i, b, 1)
  \/ \E h \in Headers : UploadGate(h, TRUE)
  \/ \E i \in 1..MaxInFlight : BbFinish(i)
  \/ \E i \in 1..MaxInFlight : UploadClose(i)

SpecGate == InitGate /\ [][NextGate]_vars

\* Login and body parsing: every login input, and adds whose body fails to
\* parse, over a store that holds an item.
LoginFiles == {DataFile("array", <<F_a>>, TRUE, TRUE)}

LoginInputs ==
  LoginBodies \cup
  { BodyOfKind("null"),
    LoginBody(JStr(<<"r", "o", "o", "t">>), JStr(ADMIN_PASSWORD)),
    LoginBody(JStr(<<"A", "d", "m", "i", "n">>), JStr(ADMIN_PASSWORD)),
    LoginBody(JStr(ADMIN_USER \o <<" ">>), JStr(ADMIN_PASSWORD)),
    LoginBody(JAbsent, JStr(ADMIN_PASSWORD)),
    LoginBody(JStr(ADMIN_USER), JNum(0)),
    LoginBody(JStr(ADMIN_USER), JNull) }

ParseBodies == {BodyOfKind("error"), BodyOfKind("notjson"), Body_a}

InitLogin == InitWith(LoginFiles)

NextLogin ==
  \/ \E t \in Times : Tick(t)
  \/ LoginBegin
  \/ \E i \in 1..MaxInFlight, b \in LoginInputs : LoginBodyDone(i, b)
  \/ \E h \in RepoHeaders : NewsGate(h)
  \/ \E i \in 1..MaxInFlight, b \in ParseBodies : NewsBodyDone(i, b, 1)

SpecLogin == InitLogin /\ [][NextLogin]_vars

\* Coercion of the body fields: strings, numbers, booleans, null and absent
\* keys in an authenticated add.
CoerceBodies ==
  { NewsBody(JNum(0), JAbsent, JAbsent),
    NewsBody(JNum(7), JNum(0), JBool(TRUE)),
    NewsBody(JBool(FALSE), JAbsent, JAbsent),
    NewsBody(JBool(TRUE), JBool(FALSE), JNum(12)),
    NewsBody(JNull, JStr(<<"s">>), JAbsent),
    NewsBody(JStr(<<" ", "a">>), JNull, JStr(<<" ">>)),
    BodyOfKind("empty") }

NextCoerce ==
  \/ \E t \in RepoTimes : Tick(t)
  \/ ListNews
  \/ \E h \in RepoHeaders : NewsGate(h)
  \/ \E i \in 1..MaxInFlight, b \in CoerceBodies, rand \in Rands : NewsBodyDone(i, b, rand)

SpecCoerce == InitLogin /\ [][NextCoerce]_vars

\* The life of a token: logins and adds around the start of the process and
\* around seven days later, each add presenting a token a login issued.
SevenDaysMs == ExpiresInSec * 1000
TokenTimes == {0, 500, SevenDaysMs - 1, SevenDaysMs, SevenDaysMs + 600}
TokenBodies ==
  { LoginBody(JStr(ADMIN_USER), JStr(ADMIN_PASSWORD)),
    LoginBody(JStr(ADMIN_USER), JAbsent) }
IssuedHeaders == {NoHeader} \cup {Header(Scheme_Bearer, r.token) : r \in issued}

NextToken ==
  \/ \E t \in TokenTimes : Tick(t)
  \/ LoginBegin
  \/ \E i \in 1..MaxInFlight, b \in TokenBodies : LoginBodyDone(i, b)
  \/ \E h \in IssuedHeaders : NewsGate(h)
  \/ \E i \in 1..MaxInFlight : NewsBodyDone(i, Body_a, 1)

SpecToken == InitLogin /\ [][NextToken]_vars

\* Storage that works: one process, two clients with accepted tokens whose
\* adds overlap, and a data.json that is read and written without failure and
\* that nothing else writes.
SteadyStart == <<F_noid, F_a, F_a2, F_old>>
SteadyFiles == {DataFile("array", SteadyStart, TRUE, TRUE)}
SteadyHeaders == {Header(Scheme_Bearer, GoodToken), Header(Scheme_bearer, GoodToken)}
SteadyBodies == {Body_blank, Body_a, Body_b}

InitSteady == InitWith(SteadyFiles)

NextSteady ==
  \/ \E t \in RepoTimes : Tick(t)
  \/ ListNews
  \/ \E h \in SteadyHeaders : NewsGate(h)
  \/ \E i \in 1..MaxInFlight, b \in SteadyBodies, rand \in Rands : NewsBodyDone(i, b, rand)

SpecSteady == InitSteady /\ [][NextSteady]_vars

\* A data.json written by something other than the handler, with an item
\* whose createdAt is an object that new Date() cannot convert.
ForeignFiles ==
  { DataFile("array", <<F_obj>>, TRUE, TRUE),
    DataFile("array", <<F_a, F_obj>>, TRUE, FALSE) }
ForeignBodies == {Body_blank, Body_a}

InitForeign == InitWith(ForeignFiles)

NextForeign ==
  \/ \E t \in RepoTimes : Tick(t)
  \/ ListNews
  \/ \E h \in RepoHeaders : NewsGate(h)
  \/ \E i \in 1..MaxInFlight, b \in ForeignBodies, rand \in Rands : NewsBodyDone(i, b, rand)

SpecForeign == InitForeign /\ [][NextForeign]_vars

\* Two handler processes over one data.json that can be read and written:
\* this process and a second one, each of which may be descheduled between
\* the readFileSync, the open and the write of an add.
SharedBodies == {Body_a, Body_b}

NextShared ==
  \/ \E t \in RepoTimes : Tick(t)
  \/ ListNews
  \/ \E h \in RepoHeaders : NewsGate(h)
  \/ \E i \in 1..MaxInFlight, b \in SharedBodies : NewsAddRead(i, b, 1)
  \/ NewsAddOpen
  \/ \E covers, partial \in BOOLEAN : NewsAddWrite(covers, partial)
  \/ PeerListNews
  \/ \E b \in SharedBodies : PeerAddRead(b, 2)
  \/ PeerAddOpen
  \/ \E covers, partial \in BOOLEAN : PeerAddWrite(covers, partial)

SpecShared == InitLogin /\ [][NextShared]_vars

\* The upload relay: every event of the multipart stream, of its file fields
\* and of the blob store, for uploads that pass or fail the gate.
NextUpload ==
  \/ \E t \in RepoTimes : Tick(t)
  \/ \E h \in RepoHeaders, formType \in BOOLEAN : UploadGate(h, formType)
  \/ \E i \in 1..MaxInFlight : UploadFile(i)
  \/ \E i \in 1..MaxInFlight, k \in 1..MaxFiles, empty \in BOOLEAN : FileEnd(i, k, empty)
  \/ \E i \in 1..MaxInFlight, k \in 1..MaxFiles : FileEndThenFinish(i, k)
  \/ \E i \in 1..MaxInFlight, k \in 1..MaxFiles : FileError(i, k)
  \/ \E i \in 1..MaxInFlight, k \in 1..MaxFiles, stored \in BOOLEAN : PutSettle(i, k, stored)
  \/ \E i \in 1..MaxInFlight : BbError(i)
  \/ \E i \in 1..MaxInFlight : BbFinish(i)
  \/ \E i \in 1..MaxInFlight : ReqError(i)
  \/ \E i \in 1..MaxInFlight : UploadClose(i)

SpecUpload == InitLogin /\ [][NextUpload]_vars

\* ============================================================ properties
Indices(seq) == 1..Len(seq)
CacheItems == CacheNews(runtimeNewsCache)

\* The body was parsed (it is JSON, or empty) and its text, a string or
\* absent, is empty once trimmed.
TextTrimsEmpty(b) ==
  /\ b.kind \in {"empty", "null", "object"}
  /\ b.text.t \in {"absent", "str"}
  /\ Trim(b.text.s) = <<>>

\* The body was parsed and its text is a string that is not empty once trimmed.
TextTrimsNonEmpty(b) ==
  /\ b.kind = "object"
  /\ b.text.t = "str"
  /\ Trim(b.text.s) # <<>>

TrimmedOrEmpty(v) == IF v.t = "str" THEN Trim(v.s) ELSE <<>>

\* ------------------------------------------------------------------- C1
\* C1: right after an authenticated add whose text is not empty once trimmed
\* (whether or not the durable write succeeded), listAll holds exactly one item
\* with the id add generated, that item is the item add returned, and it
\* carries the trimmed text, source and imageUrl of the body.
C1_AddThenList ==
  (last.op = "add" /\ TextTrimsNonEmpty(last.body)) =>
    LET listed == ListAll IN
    /\ last.status = 201
    /\ last.item.id \in {makeId(r, now) : r \in Rands}
    /\ last.item.text = Trim(last.body.text.s)
    /\ last.item.source = TrimmedOrEmpty(last.body.source)
    /\ last.item.imageUrl = TrimmedOrEmpty(last.body.imageUrl)
    /\ Cardinality({k \in Indices(listed) : listed[k].id = last.item.id}) = 1
    /\ \E k \in Indices(listed) : listed[k] = last.item

\* An add has just returned 201 although the durable write failed, and the
\* cache already held an item with the same id.
C1_Witness ==
  /\ last.op = "add" /\ last.status = 201
  /\ ~dataFile.writable
  /\ Len(CacheItems) = 2
  /\ CacheItems[1].id = CacheItems[2].id
  /\ CacheItems[1] # CacheItems[2]

\* ------------------------------------------------------------------- C2
\* C2: whenever an id is in the cache and in the durable store with different
\* field values, listAll holds exactly one item with that id and it is the
\* cache's (newest) copy, so no differing durable copy is listed.
FirstInCache(id) ==
  CacheItems[CHOOSE i \in Indices(CacheItems) :
                /\ CacheItems[i].id = id
                /\ \A j \in 1..(i - 1) : CacheItems[j].id # id]

C2_Precedence ==
  LET listed == ListAll IN
  \A i \in Indices(CacheItems), j \in Indices(dataFile.news) :
    (CacheItems[i].id = dataFile.news[j].id /\ CacheItems[i] # dataFile.news[j]) =>
      LET id == CacheItems[i].id IN
      /\ Cardinality({k \in Indices(listed) : listed[k].id = id}) = 1
      /\ \A k \in Indices(listed) : listed[k].id = id => listed[k] = FirstInCache(id)

\* A list was served while a readable durable store held a copy of a cached
\* id with other field values.
C2_Witness ==
  /\ last.op = "list"
  /\ dataFile.readable /\ dataFile.content = "array"
  /\ \E i \in Indices(CacheItems), j \in Indices(dataFile.news) :
       /\ dataFile.news[j].id = CacheItems[i].id
       /\ \A k \in Indices(CacheItems) : dataFile.news[j] # CacheItems[k]

\* ------------------------------------------------------------------- C3
\* C3: in the sequence a list returns, no item is followed by an item with a
\* strictly later createdAt (an item whose createdAt is no instant is later
\* than none).
StrictlyLater(a, b) == a.createdAt # NaN /\ b.createdAt # NaN /\ a.createdAt > b.createdAt

C3_SortedDescending ==
  last.op = "list" =>
    \A i \in Indices(last.news), j \in Indices(last.news) :
      i < j => ~StrictlyLater(last.news[j], last.news[i])

\* ------------------------------------------------------------------- C4
\* C4: what listAll returns has no two items with the same id and no item
\* without an id, and its items are exactly the first occurrences, by id, of
\* the cache sequence followed by the durable sequence as read.
Concat == CacheItems \o readNewsFromFile(dataFile)
FirstOccurrences ==
  { i \in Indices(Concat) :
      /\ Concat[i].id # NoId
      /\ \A j \in 1..(i - 1) : Concat[j].id # Concat[i].id }

C4_Deduplicated ==
  LET listed == ListAll IN
  /\ \A i \in Indices(listed), j \in Indices(listed) :
       i # j => listed[i].id # listed[j].id
  /\ \A i \in Indices(listed) : listed[i].id # NoId
  /\ {listed[k] : k \in Indices(listed)} = {Concat[i] : i \in FirstOccurrences}
  /\ Len(listed) = Cardinality(FirstOccurrences)

\* A list was served from a cache holding two items with one id and a readable
\* store holding an item without id and a repeated id.
C4_Witness ==
  /\ last.op = "list"
  /\ Len(CacheItems) = 2 /\ CacheItems[1].id = CacheItems[2].id
  /\ \E i \in Indices(readNewsFromFile(dataFile)) : readNewsFromFile(dataFile)[i].id = NoId
  /\ Len(last.news) < Len(Concat) - 2

\* ------------------------------------------------------------------- C5
\* C5: a request to POST /news or POST /upload whose header is missing, is not
\* of the Bearer scheme or carries a token that fails signature or expiry
\* verification is answered 401 without suspending at the body read, and
\* leaves the cache, the durable store and the blob store unchanged; and the
\* cache changes only by an add whose request presented a token that the
\* secret signed and that had not expired when the process started.
PresentsBearerToken(h) ==
  /\ Len(h.scheme) = 6
  /\ \A k \in 1..6 : h.scheme[k] \in {<<"B", "E", "A", "R", "E", "R">>[k], <<"b", "e", "a", "r", "e", "r">>[k]}
  /\ h.cred.present /\ h.cred.wellFormed /\ h.cred.sig
ValidAt(h, t) == PresentsBearerToken(h) /\ (t \div 1000) < h.cred.exp

C5_AuthGate ==
  [][ /\ (last'.op \in {"news_gate", "upload_gate"} /\ ~ValidAt(last'.auth, now)) =>
           /\ last'.status = 401
           /\ last'.body = NoBody
           /\ inflight' = inflight
           /\ UNCHANGED <<runtimeNewsCache, dataFile, blobs>>
      /\ (runtimeNewsCache' # runtimeNewsCache) =>
           /\ last'.op = "add"
           /\ ValidAt(last'.auth, 0)
    ]_vars

\* An upload was refused for a token that has expired since the process
\* started, while the cache holds an item.
C5_Witness ==
  /\ last.op = "upload_gate" /\ last.status = 401
  /\ last.auth = Header(Scheme_Bearer, ShortToken)
  /\ Len(CacheItems) > 0

\* ------------------------------------------------------------------- C6
\* C6: an authenticated add whose text is absent or empty once trimmed is
\* answered 400 "text is required" and changes neither the cache (an
\* uninitialized cache stays uninitialized) nor the durable store.
C6_ValidationFrame ==
  [][ (last'.op = "add" /\ TextTrimsEmpty(last'.body)) =>
        /\ last'.status = 400
        /\ last'.error = "text is required"
        /\ UNCHANGED <<runtimeNewsCache, dataFile>>
    ]_vars

\* A whitespace-only text was refused while the cache was uninitialized and
\* the store writable.
C6_Witness ==
  /\ last.op = "add" /\ last.error = "text is required"
  /\ last.body = Body_blank
  /\ ~runtimeNewsCache.isArray
  /\ dataFile.writable

\* ------------------------------------------------------------------- C7
\* C7: GET /news answers 200 with the merged list in every state of the store,
\* a store that is missing, unreadable, malformed or without a news array
\* counting as empty; and an authenticated add with a valid text answers 201
\* with the item, which heads the cache, also when the durable read or write
\* fails.
StoreUnusable == ~(dataFile.readable /\ dataFile.content = "array")

C7_FailuresAbsorbed ==
  /\ last.op = "list" =>
       /\ last.status = 200
       /\ last.news = ListAll
       /\ StoreUnusable => last.news = getAllNews(CacheItems, <<>>)
  /\ (last.op = "add" /\ TextTrimsNonEmpty(last.body)) =>
       /\ last.status = 201
       /\ runtimeNewsCache.isArray
       /\ Head(CacheItems) = last.item

\* ------------------------------------------------------------------- C8
\* C8 as stated: every item add returned is in what listAll returns, with the
\* same id, text, source, imageUrl and createdAt, in every later state.
C8_LastingVisibility ==
  LET listed == ListAll IN
  \A i \in Indices(created) : \E k \in Indices(listed) : listed[k] = created[i]

\* C8 amended: every item add returned has its id in what listAll returns in
\* every later state; the listed item is that very item unless a later add
\* generated the same id, and then it is the latest item added under that id.
LatestWithId(id) ==
  created[CHOOSE i \in Indices(created) :
            /\ created[i].id = id
            /\ \A j \in (i + 1)..Len(created) : created[j].id # id]

C8_VisibleUnlessShadowed ==
  LET listed == ListAll IN
  \A i \in Indices(created) :
    /\ Cardinality({k \in Indices(listed) : listed[k].id = created[i].id}) = 1
    /\ \A k \in Indices(listed) :
         listed[k].id = created[i].id => listed[k] = LatestWithId(created[i].id)

\* Two items with different ids were added, the store has since become
\* unavailable, and a list was served.
C8_Witness ==
  /\ last.op = "list"
  /\ Len(created) = 2 /\ created[1].id # created[2].id
  /\ created[1].createdAt < created[2].createdAt
  /\ ~dataFile.readable /\ ~dataFile.writable

\* ------------------------------------------------------------------- C9
\* C9: no step of the handler removes an item from the cache or from the
\* durable store, or changes a field of one: the cache after the step ends
\* with the cache before it, and so does the durable sequence.
EndsWith(after, before) ==
  /\ Len(after) >= Len(before)
  /\ SubSeq(after, Len(after) - Len(before) + 1, Len(after)) = before

C9_NeverDeleted ==
  [][ last'.op \notin {"tick", "env"} =>
        /\ EndsWith(CacheNews(runtimeNewsCache'), CacheNews(runtimeNewsCache))
        /\ EndsWith(dataFile'.news, dataFile.news)
    ]_vars

\* ------------------------------------------------------------------ C10
\* C10: a list returns what listAll yields from the cache and the store of
\* the state it runs in, and no step other than a successful add or a change
\* of the store changes the cache or the store; so two lists with no add
\* between them return the same items in the same order.
C10_ListIdempotent ==
  [][ (last'.op # "env" /\ ~(last'.op = "add" /\ last'.status # 400)) =>
        /\ UNCHANGED <<runtimeNewsCache, dataFile>>
        /\ last'.op = "list" => last'.news = ListAll
    ]_vars

\* A list of at least three items was served from a cache and a store that
\* both hold items.
C10_Witness ==
  /\ last.op = "list"
  /\ Len(last.news) >= 3
  /\ Len(CacheItems) > 0
  /\ Len(readNewsFromFile(dataFile)) > 0

\* ------------------------------------------------------------------ C11
\* C11: a login whose body was parsed answers 200 with a signed token exactly
\* when the body's username and password are strings equal, character for
\* character, to the configured ones; every other body, missing fields
\* included, is answered 401 "Invalid credentials" without a token; and no
\* login changes the cache or the durable store.
IsString(v, str) == v.t = "str" /\ v.s = str

C11_LoginExact ==
  [][ (last'.op = "login" /\ last'.body.kind \in {"empty", "null", "object"}) =>
        LET b == last'.body
            match == IsString(b.username, ADMIN_USER) /\ IsString(b.password, ADMIN_PASSWORD)
        IN /\ match =>
                /\ last'.status = 200
                /\ last'.token.present /\ last'.token.wellFormed /\ last'.token.sig
           /\ ~match =>
                /\ last'.status = 401
                /\ last'.error = "Invalid credentials"
                /\ last'.token = NoToken
                /\ issued' = issued
           /\ UNCHANGED <<runtimeNewsCache, dataFile>>
    ]_vars

\* A login was answered 200 while the cache held an item and another request
\* was suspended.
C11_Witness ==
  /\ last.op = "login" /\ last.status = 200
  /\ Len(CacheItems) > 0
  /\ Len(inflight) > 0

\* ------------------------------------------------------------------ C12
\* C12 as stated: a request to the gated add that presents a token a login
\* issued at instant t is let through when made before t + 7 days and answered
\* 401 when made after t + 7 days.
PresentsIssued(r) == last.auth = Header(Scheme_Bearer, r.token)

C12_SevenDays ==
  last.op = "news_gate" =>
    \A r \in issued :
      PresentsIssued(r) =>
        /\ now < r.at + SevenDaysMs => last.status # 401
        /\ now > r.at + SevenDaysMs => last.status = 401

\* C12 amended: the token carries its expiry in whole seconds, seven days
\* after the second in which it was issued; a request to the gated add that
\* presents it is answered 401 exactly when the clock, in whole seconds, has
\* reached that second, whatever logins, adds and refused requests happened
\* since the login.
C12_SevenDaysInSeconds ==
  last.op = "news_gate" =>
    \A r \in issued :
      PresentsIssued(r) =>
        (last.status = 401 <=> (now \div 1000) >= (r.at \div 1000) + ExpiresInSec)

\* An add was refused less than seven days after a login issued the token it
\* presented, once an earlier add with that token had succeeded.
C12_Witness ==
  /\ last.op = "news_gate" /\ last.status = 401
  /\ \E r \in issued : PresentsIssued(r) /\ r.at > 0 /\ now < r.at + SevenDaysMs
  /\ Len(CacheItems) > 0

\* ------------------------------------------------------------------ C13
\* C13: in an add whose body was parsed, text, source and imageUrl are the
\* trimmed string forms of the body's values (a number or a boolean as
\* String() prints it, an absent key or null as the empty string), and the
\* add is answered 400 "text is required" exactly when that form of text is
\* empty.
StringForm(v) == IF v.t \in {"absent", "null"} THEN <<>> ELSE Trim(StringOf(v))

C13_CoercedToString ==
  (last.op = "add" /\ last.body.kind \in {"empty", "null", "object"}) =>
    /\ (last.status = 400 /\ last.error = "text is required")
         <=> StringForm(last.body.text) = <<>>
    /\ last.status = 201 =>
         /\ last.item.text = StringForm(last.body.text)
         /\ last.item.source = StringForm(last.body.source)
         /\ last.item.imageUrl = StringForm(last.body.imageUrl)

\* ------------------------------------------------------------------ C14
\* C14: a login or an authenticated add whose body stream errors, or whose
\* body is not JSON, is answered 400 with the message of the failure ("Failed
\* to read body", "Body must be JSON"), and the step changes neither the
\* cache, nor the durable store, nor the tokens issued.
C14_ParseFailure400 ==
  [][ (last'.op \in {"add", "login"} /\ last'.body.kind \in {"error", "notjson"}) =>
        /\ last'.status = 400
        /\ last'.error = IF last'.body.kind = "error"
                         THEN "Failed to read body" ELSE "Body must be JSON"
        /\ UNCHANGED <<runtimeNewsCache, dataFile, issued>>
    ]_vars

\* An add whose body is not JSON was refused while the cache held an item, a
\* token had been issued and a login was suspended at its body read.
C14_Witness ==
  /\ last.op = "add" /\ last.error = "Body must be JSON"
  /\ Len(CacheItems) > 0
  /\ issued # {}
  /\ \E i \in Indices(inflight) : inflight[i].route = "login"

\* ------------------------------------------------------------------ C15
\* C15: with several adds suspended at their body read and resumed in any
\* order, a step that answers 201 puts exactly its item in front of the cache
\* as it was, every other step leaves the cache as it was, and the cache is
\* always the items answered so far, latest first.
Answers201 == last'.op = "add" /\ last'.status = 201

C15_PrependsInOrder ==
  [][ /\ Answers201 =>
           /\ CacheNews(runtimeNewsCache') = <<last'.item>> \o CacheNews(runtimeNewsCache)
           /\ created' = Append(created, last'.item)
      /\ ~Answers201 => runtimeNewsCache' = runtimeNewsCache
      /\ CacheNews(runtimeNewsCache') = Reverse(created')
    ]_vars

\* A client's add was answered 201, the second one answered, while the add of
\* another client was still suspended at its body read.
C15_Witness ==
  /\ last.op = "add" /\ last.status = 201
  /\ Len(created) = 2
  /\ \E i \in Indices(inflight) :
       inflight[i].route = "news" /\ inflight[i].auth # last.auth

\* ------------------------------------------------------------------ C16
\* C16: while every read and write of data.json succeeds and only this
\* process writes it, the durable sequence is the cache sequence followed by
\* the durable sequence the process started with; and an add answered 201
\* leaves the durable sequence with its item first, followed by the sequence
\* read, in the same order.
C16_DurableIsCacheThenStart ==
  [][ /\ dataFile'.news = CacheNews(runtimeNewsCache') \o SteadyStart
      /\ Answers201 => dataFile'.news = <<last'.item>> \o dataFile.news
    ]_vars

\* A list was served after two adds over the store the process started with.
C16_Witness ==
  /\ last.op = "list"
  /\ Len(CacheItems) = 2
  /\ Len(dataFile.news) = Len(SteadyStart) + 2
  /\ Len(last.news) < Len(dataFile.news)

\* ------------------------------------------------------------------ C17
\* C17: with two processes adding to one data.json that is read and written
\* without failure, every item a process has written is an item of the
\* durable sequence, and its id is in what listAll returns in either process.
Range(seq) == {seq[k] : k \in Indices(seq)}
Ids(seq) == {seq[k].id : k \in Indices(seq)}

\* The items whose writeFileSync has returned, in either process.
Written ==
  Range(created) \cup
  Range(IF peer.writing THEN Tail(CacheNews(peer.cache)) ELSE CacheNews(peer.cache))

C17_NoLostWrite ==
  \A item \in Written :
    /\ item \in Range(dataFile.news)
    /\ item.id \in Ids(ListAll)
    /\ item.id \in Ids(PeerListAll)

\* ------------------------------------------------------------------ C18
\* C18: no upload is answered twice, and an upload whose body stream has
\* ended or errored and whose blob-store calls have all settled has been
\* answered once.
C18_ExactlyOneResponse ==
  \A i \in Indices(inflight) :
    /\ inflight[i].responses <= 1
    /\ Settled(inflight[i]) => inflight[i].responses = 1

\* ------------------------------------------------------------------ C19
\* C19: a list changes nothing but the response: the cache keeps its items in
\* their order (a cache that was null stays null) also when the list it
\* returns is ordered otherwise, data.json is not written, and the suspended
\* requests and the histories are as they were.
C19_ListIsPureRead ==
  [][ last'.op = "list" =>
        /\ runtimeNewsCache'.isArray = runtimeNewsCache.isArray
        /\ runtimeNewsCache'.items = runtimeNewsCache.items
        /\ dataFile' = dataFile
        /\ UNCHANGED <<blobs, now, inflight, created, issued, peer, adding>>
    ]_vars

\* A list was served whose first item is not the cache's first item, although
\* it holds that item.
C19_Witness ==
  /\ last.op = "list"
  /\ Len(CacheItems) > 0
  /\ last.news[1] # CacheItems[1]
  /\ \E k \in Indices(last.news) : last.news[k] = CacheItems[1]

====
